---- MODULE Spec2Model ----
(***************************************************************************)
(* VFTracker (src/app.py): a background thread polls the OASA telematics   *)
(* provider for the stops near a fixed location and for the buses arriving *)
(* at them, stores both in the module-level dictionary `cache`, and Flask  *)
(* request handlers read that dictionary concurrently.                     *)
(***************************************************************************)
EXTENDS Integers, Sequences, FiniteSets, TLC

\* Python's None.
None == "None"

\* src/app.py:54 and :55 (seconds; the clock of the model counts seconds).
CACHE_DURATION == 20
server_start_time == 1

\* Bounds of the model.
MaxCycles == 3
MaxStops == 2
MaxArrivals == 2
MaxRoutes == 2
MaxFaults == 1

RouteCodes == {"A10", "B20"}

-----------------------------------------------------------------------------
(* Provider data *)

\* A raw stop record of getClosestStops; position i of the answer.
StopRecord(i) ==
  [StopID |-> ToString(100 + i), StopDescr |-> "Stop " \o ToString(i)]

\* A raw stop record that lacks the 'StopID' key.
MalformedStop(i) ==
  [StopDescr |-> "Stop " \o ToString(i)]

\* The answers of getClosestStops with at most n records, at most one of
\* them malformed.
StopLists(n) ==
  UNION {{[i \in 1..k |-> IF i = m THEN MalformedStop(i) ELSE StopRecord(i)]
            : m \in 0..k} : k \in 0..n}

\* The answers of Stop.arrivals() that are lists: arrival j is due in j
\* minutes.
ArrivalLists(n) ==
  UNION {{[j \in 1..k |-> [route_code |-> f[j], btime2 |-> ToString(j)]]
            : f \in [1..k -> RouteCodes]} : k \in 0..n}

\* The answers of webRoutesForStop; RouteDescr tells the entries of one code
\* apart.
RouteListings(n) ==
  UNION {{[r \in 1..k |-> [RouteCode |-> f[r], RouteDescr |-> "Route " \o ToString(r)]]
            : f \in [1..k -> RouteCodes]} : k \in 0..n}

P1 == [CS_LAT |-> "38.01", CS_LNG |-> "23.70", VEH_NO |-> "V1"]
P2 == [CS_LAT |-> "38.02", CS_LNG |-> "23.71", VEH_NO |-> "V2"]

\* An answer of a provider call: None, or a list.
NoneAnswer == [kind |-> "none", val |-> <<>>]
ListAnswer(l) == [kind |-> "list", val |-> l]

\* The answers of Route.bus_location().
LocationAnswers == {NoneAnswer, ListAnswer(<<>>), ListAnswer(<<P1, P2>>)}

\* The provider calls get_bus_data makes, by position: <<s, 0, 0>> is
\* Stop.arrivals() of stop s, <<s, a, 0>> is webRoutesForStop for arrival a
\* of stop s, <<s, a, r>> is Route.bus_location() for the matching entry r of
\* the route listing.
CallSites(stops_, arrivals, routes) ==
  LET S == 1..Len(stops_)
      A == IF arrivals.kind = "list" THEN 1..Len(arrivals.val) ELSE {}
      Matches(a) == {r \in 1..Len(routes) :
                       routes[r].RouteCode = arrivals.val[a].route_code}
  IN  {<<s, 0, 0>> : s \in S}
        \cup {<<s, a, 0>> : s \in S, a \in A}
        \cup UNION {{<<s, a, r>> : s \in S, r \in Matches(a)} : a \in A}

\* The sets of at most n calls that raise.
RECURSIVE FaultSets(_, _)
FaultSets(sites, n) ==
  IF n = 0 THEN {{}}
  ELSE LET F == FaultSets(sites, n - 1)
       IN  F \cup {f \cup {x} : f \in F, x \in sites}

\* What the provider does during one call of get_bus_data: the arrivals and
\* the route listing it answers for a stop, the location it answers for a
\* route, and the calls that raise.
Env(a, r, l, f) == [arrivals |-> a, routes |-> r, location |-> l, raises |-> f]

ArrivalAnswers(n) == {NoneAnswer} \cup {ListAnswer(x) : x \in ArrivalLists(n)}

RaiseAnswer == [kind |-> "raise", val |-> <<>>]

\* What the provider answers in a refresh cycle of the whole program:
\* getClosestStops raises or answers no stop, one stop or one malformed
\* record; a stop has at most one arrival and one route.
CycleStopAnswers == {RaiseAnswer} \cup {ListAnswer(l) : l \in StopLists(1)}
CycleArrivalAnswers == ArrivalAnswers(1)
CycleRouteListings == RouteListings(1)

-----------------------------------------------------------------------------
(* Conversions *)

\* float() of the coordinate strings the provider sends, in hundredths of a
\* degree.
Float(s) ==
  CASE s = "38.01" -> 3801
    [] s = "38.02" -> 3802
    [] s = "23.70" -> 2370
    [] s = "23.71" -> 2371

Pad2(n) == IF n < 10 THEN "0" \o ToString(n) ELSE ToString(n)

\* datetime.now().strftime('%H:%M:%S') at second t of the clock.
Strftime(t) ==
  Pad2((t \div 3600) % 24) \o ":" \o Pad2((t \div 60) % 60) \o ":" \o Pad2(t % 60)

-----------------------------------------------------------------------------
(* get_bus_data, src/app.py:78-132 *)

\* Lines 104-108 and 116-119: the copy of the route entry with the arrival's,
\* the stop's and the first position's fields.
BusInfo(stop_info, arrival, route_info, bus_location, t) ==
  [RouteCode |-> route_info.RouteCode,
   RouteDescr |-> route_info.RouteDescr,
   time_left |-> arrival.btime2,
   stop_name |-> stop_info.StopDescr,
   stop_id |-> stop_info.StopID,
   route_code |-> arrival.route_code,
   lat |-> Float(bus_location[1].CS_LAT),
   lng |-> Float(bus_location[1].CS_LNG),
   vehicle_id |-> bus_location[1].VEH_NO,
   last_update |-> Strftime(t)]

\* The route loop with all_buses.insert(0, bus_info) for the append of line
\* 120: the newest sighting first.
RECURSIVE RouteLoop_Prepends(_, _, _, _, _, _, _, _)
RouteLoop_Prepends(stop_info, arrival, env_, t, s, a, r, acc) ==
  IF r > Len(env_.routes) THEN acc
  ELSE LET route_info == env_.routes[r]
           next ==
             IF route_info.RouteCode # arrival.route_code THEN acc
             ELSE IF <<s, a, r>> \in env_.raises
                  THEN [acc EXCEPT !.errors = @ + 1]
             ELSE IF env_.location.kind = "list" /\ Len(env_.location.val) > 0
                  THEN [acc EXCEPT !.all_buses =
                          <<BusInfo(stop_info, arrival, route_info,
                                    env_.location.val, t)>> \o @]
             ELSE acc
       IN  RouteLoop_Prepends(stop_info, arrival, env_, t, s, a, r + 1, next)

\* Lines 101-123: the loop over the route listing from entry r on, for
\* arrival a of stop s; the loop has no break. acc is the record of
\* all_buses, errors and raised.
RECURSIVE RouteLoop(_, _, _, _, _, _, _, _)
RouteLoop(stop_info, arrival, env_, t, s, a, r, acc) ==
  IF r > Len(env_.routes) THEN acc
  ELSE LET route_info == env_.routes[r]
           next ==
             IF route_info.RouteCode # arrival.route_code THEN acc
             ELSE IF <<s, a, r>> \in env_.raises
                  THEN [acc EXCEPT !.errors = @ + 1]
             ELSE IF env_.location.kind = "list" /\ Len(env_.location.val) > 0
                  THEN [acc EXCEPT !.all_buses =
                          Append(@, BusInfo(stop_info, arrival, route_info,
                                            env_.location.val, t))]
             ELSE acc
       IN  RouteLoop(stop_info, arrival, env_, t, s, a, r + 1, next)

\* The arrival loop with the try of line 98 around the whole loop: the first
\* webRoutesForStop call that raises ends the arrivals of the stop.
RECURSIVE ArrivalLoop_AbortsStop(_, _, _, _, _, _, _)
ArrivalLoop_AbortsStop(stop_info, arrivals, env_, t, s, a, acc) ==
  IF a > Len(arrivals) THEN acc
  ELSE IF <<s, a, 0>> \in env_.raises THEN [acc EXCEPT !.errors = @ + 1]
  ELSE ArrivalLoop_AbortsStop(stop_info, arrivals, env_, t, s, a + 1,
         RouteLoop(stop_info, arrivals[a], env_, t, s, a, 1, acc))

\* Lines 97-126: the loop over the arrivals of stop s from arrival a on.
RECURSIVE ArrivalLoop(_, _, _, _, _, _, _)
ArrivalLoop(stop_info, arrivals, env_, t, s, a, acc) ==
  IF a > Len(arrivals) THEN acc
  ELSE LET next ==
             IF <<s, a, 0>> \in env_.raises
             THEN [acc EXCEPT !.errors = @ + 1]
             ELSE RouteLoop(stop_info, arrivals[a], env_, t, s, a, 1, acc)
       IN  ArrivalLoop(stop_info, arrivals, env_, t, s, a + 1, next)

\* Lines 87-129: the loop over the stops from stop s on. A record without
\* 'StopID' raises KeyError at line 89 and again in the handler at line 128,
\* so the exception leaves get_bus_data (raised).
RECURSIVE StopLoop(_, _, _, _, _)
StopLoop(stops_, env_, t, s, acc) ==
  IF s > Len(stops_) THEN acc
  ELSE LET stop_info == stops_[s]
       IN  IF "StopID" \notin DOMAIN stop_info
           THEN [acc EXCEPT !.raised = TRUE]
           ELSE LET next ==
                      IF <<s, 0, 0>> \in env_.raises
                      THEN [acc EXCEPT !.errors = @ + 1]
                      ELSE IF env_.arrivals.kind = "none" THEN acc
                      ELSE ArrivalLoop(stop_info, env_.arrivals.val, env_, t, s, 1, acc)
                IN  StopLoop(stops_, env_, t, s + 1, next)

\* get_bus_data reading stops[0] before its loop: IndexError on no stops.
get_bus_data_EmptyRaises(oasa_, stops_, env_, t) ==
  LET acc0 == [all_buses |-> <<>>, errors |-> 0, raised |-> FALSE]
  IN  IF oasa_ = None THEN acc0
      ELSE IF stops_ = <<>> THEN [acc0 EXCEPT !.raised = TRUE]
      ELSE StopLoop(stops_, env_, t, 1, acc0)

\* Lines 78-132. The result: the list returned (all_buses), the error count
\* logged at line 131 (errors), and whether an exception left the function
\* instead (raised).
get_bus_data(oasa_, stops_, env_, t) ==
  LET acc0 == [all_buses |-> <<>>, errors |-> 0, raised |-> FALSE]
  IN  IF oasa_ = None THEN acc0
      ELSE StopLoop(stops_, env_, t, 1, acc0)

\* Lines 57-76: answer is what getClosestStops does, "raise" or a list.
get_stops(oasa_, answer) ==
  IF oasa_ = None THEN <<>>
  ELSE IF answer.kind = "raise" THEN <<>>
  ELSE answer.val

-----------------------------------------------------------------------------
(* State *)

VARIABLES
  oasa,         \* the provider client of line 27, or None (line 31)
  main_pc,      \* the main thread: "boot" before line 346, then "serving"
  cache,        \* the dictionary of lines 41-51
  pc,           \* the update_cache thread: "none" while it does not exist
  stops,        \* update_cache's local stops
  buses,        \* update_cache's local buses
  errors,       \* the error count get_bus_data logged last (line 131)
  now,          \* time.time(), in seconds
  handler_pc,   \* the request handler running, "idle" between requests
  resp,         \* what the handler has read for its response so far
  env,          \* the provider's behaviour during get_bus_data
  written,      \* history: the cycle that wrote each field of cache
  read_from,    \* history: the cycle that wrote each value in resp
  before,       \* history: the cache when the current or last cycle started
  cycle_log,    \* history: what the calls of the current or last cycle did
  sleeps,       \* history: the sleeps of line 163 since the last cycle start
  publishes     \* history: the times lines 149-151 have all been executed

vars == <<oasa, main_pc, cache, pc, stops, buses, errors, now, handler_pc,
          resp, env, written, read_from, before, cycle_log, sleeps,
                 publishes>>

NoEnv == [arrivals |-> NoneAnswer, routes |-> <<>>, location |-> NoneAnswer,
          raises |-> {}]

cache0 ==
  [stops |-> <<>>, buses |-> <<>>, last_update |-> 0,
   stats |-> [total_updates |-> 0, successful_updates |-> 0,
              failed_updates |-> 0, uptime |-> 0]]

NoResp == [handler |-> "none"]

\* discovery: getClosestStops raised ("raise") or answered ("list");
\* pipeline: get_stops and get_bus_data returned ("returned") or an exception
\* left them ("raised").
NoLog == [discovery |-> "pending", pipeline |-> "pending"]

InitCommon ==
  /\ main_pc = "boot"
  /\ cache = cache0
  /\ pc = "none"
  /\ stops = <<>>
  /\ buses = <<>>
  /\ errors = 0
  /\ now = server_start_time
  /\ handler_pc = "idle"
  /\ resp = NoResp
  /\ written = [stops |-> 0, buses |-> 0, last_update |-> 0]
  /\ read_from = <<>>
  /\ before = cache0
  /\ cycle_log = NoLog
  /\ sleeps = 0
  /\ publishes = 0

\* Lines 26-31: the client is constructed, or construction failed.
Init ==
  /\ oasa \in {"OasaTelematics", None}
  /\ env = NoEnv
  /\ InitCommon

-----------------------------------------------------------------------------
(* __main__, src/app.py:346-361 *)

\* __main__ starting the update thread without the test of line 351.
Main_AlwaysStarts ==
  /\ main_pc = "boot"
  /\ main_pc' = "serving"
  /\ pc' = "cycle"
  /\ UNCHANGED <<oasa, cache, stops, buses, errors, now, handler_pc, resp, env,
                 written, read_from, before, cycle_log, sleeps, publishes>>

\* Lines 351-356, 361: start the update thread if there is a client, then
\* serve.
Main ==
  /\ main_pc = "boot"
  /\ main_pc' = "serving"
  /\ pc' = IF oasa # None THEN "cycle" ELSE "none"
  /\ UNCHANGED <<oasa, cache, stops, buses, errors, now, handler_pc, resp, env,
                 written, read_from, before, cycle_log, sleeps, publishes>>

-----------------------------------------------------------------------------
(* update_cache, src/app.py:134-163 *)

Cycle == cache.stats.total_updates

\* The loop body entered again while the stores of lines 149-151 are under
\* way, as a second update thread would enter it.
StartCycle_Overlapping ==
  /\ pc \in {"cycle", "store_buses"}
  /\ Cycle < MaxCycles
  /\ cache' = [cache EXCEPT !.stats.total_updates = @ + 1]
  /\ before' = cache
  /\ cycle_log' = NoLog
  /\ sleeps' = 0
  /\ pc' = "get_stops"
  /\ UNCHANGED <<oasa, main_pc, stops, buses, errors, now, handler_pc, resp,
                 env, written, read_from, publishes>>

\* Lines 139-142.
StartCycle ==
  /\ pc = "cycle"
  /\ Cycle < MaxCycles
  /\ cache' = [cache EXCEPT !.stats.total_updates = @ + 1]
  /\ before' = cache
  /\ cycle_log' = NoLog
  /\ sleeps' = 0
  /\ pc' = "get_stops"
  /\ UNCHANGED <<oasa, main_pc, stops, buses, errors, now, handler_pc, resp,
                 env, written, read_from, publishes>>

\* Line 145.
CallGetStops ==
  /\ pc = "get_stops"
  /\ \E answer \in CycleStopAnswers :
       /\ stops' = get_stops(oasa, answer)
       /\ cycle_log' = [cycle_log EXCEPT !.discovery = answer.kind]
  /\ pc' = "get_bus_data"
  /\ UNCHANGED <<oasa, main_pc, cache, buses, errors, now, handler_pc, resp,
                 env, written, read_from, before, sleeps, publishes>>

\* Line 146, with the provider behaving as e: the call returns, or raises
\* into the handler of line 158.
GetBusDataStep(e) ==
  /\ pc = "get_bus_data"
  /\ LET r == get_bus_data(oasa, stops, e, now)
     IN  IF r.raised
         THEN /\ pc' = "except"
              /\ buses' = buses
              /\ errors' = errors
              /\ cycle_log' = [cycle_log EXCEPT !.pipeline = "raised"]
         ELSE /\ pc' = "store_stops"
              /\ buses' = r.all_buses
              /\ errors' = r.errors
              /\ cycle_log' = [cycle_log EXCEPT !.pipeline = "returned"]
  /\ UNCHANGED <<oasa, main_pc, cache, stops, now, handler_pc, resp, env,
                 written, read_from, before, sleeps, publishes>>

CallGetBusData ==
  \E a \in CycleArrivalAnswers, r \in CycleRouteListings, l \in LocationAnswers :
    \E f \in FaultSets(CallSites(stops, a, r), MaxFaults) :
      GetBusDataStep(Env(a, r, l, f))

\* Line 149.
StoreStops ==
  /\ pc = "store_stops"
  /\ cache' = [cache EXCEPT !.stops = stops]
  /\ written' = [written EXCEPT !.stops = Cycle]
  /\ pc' = "store_buses"
  /\ UNCHANGED <<oasa, main_pc, stops, buses, errors, now, handler_pc, resp,
                 env, read_from, before, cycle_log, sleeps, publishes>>

\* update_cache without the assignment of line 150.
StoreBuses_Skipped ==
  /\ pc = "store_buses"
  /\ pc' = "store_last_update"
  /\ UNCHANGED <<oasa, main_pc, cache, stops, buses, errors, now, handler_pc,
                 resp, env, written, read_from, before, cycle_log, sleeps,
                 publishes>>

\* Line 150.
StoreBuses ==
  /\ pc = "store_buses"
  /\ cache' = [cache EXCEPT !.buses = buses]
  /\ written' = [written EXCEPT !.buses = Cycle]
  /\ pc' = "store_last_update"
  /\ UNCHANGED <<oasa, main_pc, stops, buses, errors, now, handler_pc, resp,
                 env, read_from, before, cycle_log, sleeps, publishes>>

\* Line 151.
StoreLastUpdate ==
  /\ pc = "store_last_update"
  /\ cache' = [cache EXCEPT !.last_update = now]
  /\ written' = [written EXCEPT !.last_update = Cycle]
  /\ publishes' = publishes + 1
  /\ pc' = "count_success"
  /\ UNCHANGED <<oasa, main_pc, stops, buses, errors, now, handler_pc, resp,
                 env, read_from, before, cycle_log, sleeps>>

\* The try block without line 152: the success is not counted.
CountSuccess_Skipped ==
  /\ pc = "count_success"
  /\ pc' = "store_uptime"
  /\ UNCHANGED <<oasa, main_pc, cache, stops, buses, errors, now, handler_pc,
                 resp, env, written, read_from, before, cycle_log, sleeps,
                 publishes>>

\* Line 152 setting successful_updates to total_updates instead of adding 1.
CountSuccess_FromTotal ==
  /\ pc = "count_success"
  /\ cache' = [cache EXCEPT !.stats.successful_updates =
                              cache.stats.total_updates]
  /\ pc' = "store_uptime"
  /\ UNCHANGED <<oasa, main_pc, stops, buses, errors, now, handler_pc, resp,
                 env, written, read_from, before, cycle_log, sleeps, publishes>>

\* Line 152.
CountSuccess ==
  /\ pc = "count_success"
  /\ cache' = [cache EXCEPT !.stats.successful_updates = @ + 1]
  /\ pc' = "store_uptime"
  /\ UNCHANGED <<oasa, main_pc, stops, buses, errors, now, handler_pc, resp,
                 env, written, read_from, before, cycle_log, sleeps, publishes>>

\* Lines 153-156.
StoreUptime ==
  /\ pc = "store_uptime"
  /\ cache' = [cache EXCEPT !.stats.uptime = now - server_start_time]
  /\ pc' = "sleep"
  /\ UNCHANGED <<oasa, main_pc, stops, buses, errors, now, handler_pc, resp,
                 env, written, read_from, before, cycle_log, sleeps, publishes>>

\* update_cache without the try/except of lines 139 and 158: the exception
\* leaves the loop and the thread ends.
CountFailure_ThreadEnds ==
  /\ pc = "except"
  /\ pc' = "none"
  /\ UNCHANGED <<oasa, main_pc, cache, stops, buses, errors, now, handler_pc,
                 resp, env, written, read_from, before, cycle_log, sleeps,
                 publishes>>

\* The sleep of line 163 moved into the try block, after line 153: the except
\* branch goes back to the loop head without sleeping.
CountFailure_NoSleep ==
  /\ pc = "except"
  /\ cache' = [cache EXCEPT !.stats.failed_updates = @ + 1]
  /\ pc' = "cycle"
  /\ UNCHANGED <<oasa, main_pc, stops, buses, errors, now, handler_pc, resp,
                 env, written, read_from, before, cycle_log, sleeps, publishes>>

\* The except branch stamping the cache as well (line 151 repeated in it).
CountFailure_StampsCache ==
  /\ pc = "except"
  /\ cache' = [cache EXCEPT !.stats.failed_updates = @ + 1,
                            !.last_update = now]
  /\ written' = [written EXCEPT !.last_update = Cycle]
  /\ pc' = "sleep"
  /\ UNCHANGED <<oasa, main_pc, stops, buses, errors, now, handler_pc, resp,
                 env, read_from, before, cycle_log, sleeps, publishes>>

\* The except branch without the increment of line 160.
CountFailure_Uncounted ==
  /\ pc = "except"
  /\ pc' = "sleep"
  /\ UNCHANGED <<oasa, main_pc, cache, stops, buses, errors, now, handler_pc,
                 resp, env, written, read_from, before, cycle_log, sleeps,
                 publishes>>

\* The except branch storing the stops it has (line 149 moved into it).
CountFailure_StoresStops ==
  /\ pc = "except"
  /\ cache' = [cache EXCEPT !.stats.failed_updates = @ + 1, !.stops = stops]
  /\ written' = [written EXCEPT !.stops = Cycle]
  /\ pc' = "sleep"
  /\ UNCHANGED <<oasa, main_pc, stops, buses, errors, now, handler_pc, resp,
                 env, read_from, before, cycle_log, sleeps, publishes>>

\* Lines 158-160.
CountFailure ==
  /\ pc = "except"
  /\ cache' = [cache EXCEPT !.stats.failed_updates = @ + 1]
  /\ pc' = "sleep"
  /\ UNCHANGED <<oasa, main_pc, stops, buses, errors, now, handler_pc, resp,
                 env, written, read_from, before, cycle_log, sleeps, publishes>>

\* Line 163.
Sleep ==
  /\ pc = "sleep"
  /\ now' = now + CACHE_DURATION
  /\ sleeps' = sleeps + 1
  /\ pc' = "cycle"
  /\ UNCHANGED <<oasa, main_pc, cache, stops, buses, errors, handler_pc, resp,
                 env, written, read_from, before, cycle_log, publishes>>

update_cache ==
  \/ StartCycle
  \/ CallGetStops
  \/ CallGetBusData
  \/ StoreStops
  \/ StoreBuses
  \/ StoreLastUpdate
  \/ CountSuccess
  \/ StoreUptime
  \/ CountFailure
  \/ Sleep

\* A cycle is in progress: total_updates is counted and neither branch of
\* the try statement has finished.
InProgress == pc \notin {"none", "cycle", "sleep"}

-----------------------------------------------------------------------------
(* The request handlers, src/app.py:201-236 *)

\* What a handler that reads cache[field] now receives.
Read(field) == cache[field]

\* Lines 202-205: one read of cache['stops'].
get_stops_api ==
  /\ main_pc = "serving"
  /\ handler_pc = "idle"
  /\ resp' = [handler |-> "get_stops_api", stops |-> Read("stops")]
  /\ read_from' = [stops |-> written.stops]
  /\ handler_pc' = "idle"
  /\ UNCHANGED <<oasa, main_pc, cache, pc, stops, buses, errors, now, env,
                 written, before, cycle_log, sleeps, publishes>>

\* Line 215: get_buses_api reads cache['buses'].
get_buses_api_buses ==
  /\ main_pc = "serving"
  /\ handler_pc = "idle"
  /\ resp' = [handler |-> "get_buses_api", buses |-> Read("buses")]
  /\ read_from' = [buses |-> written.buses]
  /\ handler_pc' = "buses_last_update"
  /\ UNCHANGED <<oasa, main_pc, cache, pc, stops, buses, errors, now, env,
                 written, before, cycle_log, sleeps, publishes>>

\* Line 216: then cache['last_update'].
get_buses_api_last_update ==
  /\ handler_pc = "buses_last_update"
  /\ resp' = [handler |-> "get_buses_api", buses |-> resp.buses,
              last_update |-> Read("last_update")]
  /\ read_from' = [buses |-> read_from.buses, last_update |-> written.last_update]
  /\ handler_pc' = "idle"
  /\ UNCHANGED <<oasa, main_pc, cache, pc, stops, buses, errors, now, env,
                 written, before, cycle_log, sleeps, publishes>>

\* Line 228: get_status reads cache['last_update'].
get_status_last_update ==
  /\ main_pc = "serving"
  /\ handler_pc = "idle"
  /\ resp' = [handler |-> "get_status", last_update |-> Read("last_update")]
  /\ read_from' = [last_update |-> written.last_update]
  /\ handler_pc' = "status_stops_count"
  /\ UNCHANGED <<oasa, main_pc, cache, pc, stops, buses, errors, now, env,
                 written, before, cycle_log, sleeps, publishes>>

\* Line 229: then len(cache['stops']).
get_status_stops_count ==
  /\ handler_pc = "status_stops_count"
  /\ resp' = [handler |-> "get_status", last_update |-> resp.last_update,
              stops_count |-> Len(Read("stops"))]
  /\ read_from' = [last_update |-> read_from.last_update, stops |-> written.stops]
  /\ handler_pc' = "status_buses_count"
  /\ UNCHANGED <<oasa, main_pc, cache, pc, stops, buses, errors, now, env,
                 written, before, cycle_log, sleeps, publishes>>

\* Line 230: then len(cache['buses']).
get_status_buses_count ==
  /\ handler_pc = "status_buses_count"
  /\ resp' = [handler |-> "get_status", last_update |-> resp.last_update,
              stops_count |-> resp.stops_count,
              buses_count |-> Len(Read("buses"))]
  /\ read_from' = [last_update |-> read_from.last_update, stops |-> read_from.stops,
                   buses |-> written.buses]
  /\ handler_pc' = "status_stats"
  /\ UNCHANGED <<oasa, main_pc, cache, pc, stops, buses, errors, now, env,
                 written, before, cycle_log, sleeps, publishes>>

\* get_status refreshing stats['uptime'] in the cache before it answers.
get_status_stats_WritesUptime ==
  /\ handler_pc = "status_stats"
  /\ cache' = [cache EXCEPT !.stats.uptime = now - server_start_time]
  /\ resp' = [handler |-> "get_status", last_update |-> resp.last_update,
              stops_count |-> resp.stops_count,
              buses_count |-> resp.buses_count,
              stats |-> cache'.stats]
  /\ read_from' = read_from
  /\ handler_pc' = "idle"
  /\ UNCHANGED <<oasa, main_pc, pc, stops, buses, errors, now, env, written,
                 before, cycle_log, sleeps, publishes>>

\* Lines 231-233: then cache['stats'], and the response is sent.
get_status_stats ==
  /\ handler_pc = "status_stats"
  /\ resp' = [handler |-> "get_status", last_update |-> resp.last_update,
              stops_count |-> resp.stops_count,
              buses_count |-> resp.buses_count,
              stats |-> Read("stats")]
  /\ read_from' = read_from
  /\ handler_pc' = "idle"
  /\ UNCHANGED <<oasa, main_pc, cache, pc, stops, buses, errors, now, env,
                 written, before, cycle_log, sleeps, publishes>>

get_buses_api == get_buses_api_buses \/ get_buses_api_last_update

get_status ==
  \/ get_status_last_update
  \/ get_status_stops_count
  \/ get_status_buses_count
  \/ get_status_stats

-----------------------------------------------------------------------------
(* The program *)

Next ==
  \/ Main
  \/ update_cache
  \/ get_stops_api
  \/ get_buses_api
  \/ get_status

Spec == Init /\ [][Next]_vars

\* The update thread on its own.  The handlers share no lock with it and
\* write nothing it reads, so what the loop does, and whether it goes on, is
\* the same with and without requests.
LoopNext == Main \/ update_cache

\* The update thread is a daemon thread of the interpreter (lines 352-353):
\* it is scheduled again and again, time.sleep (line 163) returns, and every
\* provider call returns or raises, so a step of update_cache that stays
\* possible is eventually taken.
LiveSpec == Init /\ [][LoopNext]_vars /\ WF_vars(update_cache)

-----------------------------------------------------------------------------
(* Properties of the whole program (Spec) *)

Snapshot(c) == <<c.stops, c.buses, c.last_update>>

BetweenCycles == pc \in {"sleep", "cycle"}

\* C1: the values a request handler reads for one response were all written
\* by the same cycle (or are all the initial values).
C1_NoTornRead ==
  \A f \in DOMAIN read_from, g \in DOMAIN read_from : read_from[f] = read_from[g]

\* C2: between cycles the stops and the buses of the cache were stored by the
\* same cycle, and the buses are what get_bus_data returns for these stops
\* under some behaviour of the provider.
C2_SameCycleBetweenCycles ==
  BetweenCycles =>
    /\ written.stops = written.buses
    /\ \E a \in CycleArrivalAnswers, r \in CycleRouteListings, l \in LocationAnswers :
         \E f \in FaultSets(CallSites(cache.stops, a, r), MaxFaults) :
           LET res == get_bus_data(oasa, cache.stops, Env(a, r, l, f), cache.last_update)
           IN  ~res.raised /\ res.all_buses = cache.buses

C2_Witness ==
  /\ pc = "sleep"
  /\ cache.stats.successful_updates >= 2
  /\ cache.stats.failed_updates >= 1
  /\ cache.buses # <<>>

\* C3: a cycle whose getClosestStops call raised counts as failed, not as
\* successful, and leaves stops, buses and last_update as they were.
C3_DiscoveryFailureCountsAsFailed ==
  (pc = "sleep" /\ cycle_log.discovery = "raise") =>
    /\ cache.stats.failed_updates = before.stats.failed_updates + 1
    /\ cache.stats.successful_updates = before.stats.successful_updates
    /\ Snapshot(cache) = Snapshot(before)

\* C4: once a cycle has finished, successful_updates + failed_updates equals
\* total_updates.
C4_CountersAddUp ==
  BetweenCycles =>
    cache.stats.successful_updates + cache.stats.failed_updates
      = cache.stats.total_updates

C4_Witness ==
  /\ pc = "sleep"
  /\ cache.stats.successful_updates >= 1
  /\ cache.stats.failed_updates >= 1

\* C5: a cycle in which an exception left the pipeline leaves stops, buses
\* and last_update as they were when it started, adds exactly 1 to
\* failed_updates and nothing to successful_updates.
C5_FailedCycleKeepsSnapshot ==
  /\ pc = "except" =>
       /\ Snapshot(cache) = Snapshot(before)
       /\ cache.stats.failed_updates = before.stats.failed_updates
       /\ cache.stats.successful_updates = before.stats.successful_updates
  /\ (pc = "sleep" /\ cycle_log.pipeline = "raised") =>
       /\ Snapshot(cache) = Snapshot(before)
       /\ cache.stats.failed_updates = before.stats.failed_updates + 1
       /\ cache.stats.successful_updates = before.stats.successful_updates

C5_Witness ==
  /\ pc = "sleep"
  /\ cycle_log.pipeline = "raised"
  /\ cache.buses # <<>>
  /\ cache.last_update > 0

\* C6: while a cycle is in progress a read of stops, buses or last_update
\* returns the value the cache had when the cycle started.
C6_ReadsSeePreviousSnapshot ==
  InProgress =>
    \A field \in {"stops", "buses", "last_update"} : Read(field) = before[field]

\* C9, as stated: without a provider client the refresh loop still runs and
\* every cycle it starts is counted as a failed update.
C9_LoopRunsWithoutClient ==
  (oasa = None /\ main_pc = "serving") =>
    /\ pc # "none"
    /\ BetweenCycles =>
         cache.stats.failed_updates = cache.stats.total_updates

\* C9, amended: without a provider client the update thread is never
\* started, so no cycle runs, the counters stay 0 and the handlers serve
\* the initial values.
C9_NoThreadWithoutClient ==
  oasa = None =>
    /\ pc = "none"
    /\ cache = cache0
    /\ "stops" \in DOMAIN resp => resp.stops = <<>>
    /\ "buses" \in DOMAIN resp => resp.buses = <<>>
    /\ "last_update" \in DOMAIN resp => resp.last_update = 0
    /\ "stats" \in DOMAIN resp => resp.stats = cache0.stats

C9_Witness ==
  /\ oasa = None
  /\ main_pc = "serving"
  /\ handler_pc = "idle"
  /\ resp.handler = "get_status"
  /\ "stats" \in DOMAIN resp

\* C10: a cycle whose getClosestStops call answered no stop gets no buses
\* from get_bus_data, stores empty stops and buses, adds 1 to
\* successful_updates and nothing to failed_updates.
C10_EmptyDiscoverySucceeds ==
  (cycle_log.discovery = "list" /\ stops = <<>>) =>
    /\ pc # "except"
    /\ cycle_log.pipeline = "returned" => buses = <<>>
    /\ pc = "sleep" =>
         /\ cache.stops = <<>>
         /\ cache.buses = <<>>
         /\ cache.last_update = now
         /\ written = [stops |-> Cycle, buses |-> Cycle, last_update |-> Cycle]
         /\ cache.stats.successful_updates = before.stats.successful_updates + 1
         /\ cache.stats.failed_updates = before.stats.failed_updates

C10_Witness ==
  /\ pc = "sleep"
  /\ cycle_log.discovery = "list"
  /\ stops = <<>>
  /\ before.stops # <<>>
  /\ before.buses # <<>>

\* C11: refresh cycles are single-flight.  Whenever total_updates changes, it
\* grows by one, no cycle was in progress in the state before (every counted
\* cycle has reached its success or failure increment, the stores of lines
\* 149-151 included), and the new cycle is the one in progress after.
C11_SingleFlight ==
  [][cache'.stats.total_updates # cache.stats.total_updates
       => /\ cache'.stats.total_updates = cache.stats.total_updates + 1
          /\ ~InProgress
          /\ pc = "cycle"
          /\ cache.stats.successful_updates + cache.stats.failed_updates
               = cache.stats.total_updates
          /\ InProgress']_vars

\* A second cycle is in its publish step, after a first one has finished.
C11_Witness ==
  /\ cache.stats.total_updates >= 2
  /\ pc = "store_last_update"
  /\ publishes >= 1

\* C12: a failed cycle never stops the refresh loop.  Under LiveSpec, once a
\* cycle has been counted, whether it ends in the success branch or in the
\* except branch, the next cycle is eventually counted (up to the MaxCycles
\* cycles the model follows).
C12_NextCycleEventuallyStarts ==
  \A n \in 1..(MaxCycles - 1) :
    (cache.stats.total_updates = n) ~> (cache.stats.total_updates = n + 1)

\* A cycle has started after a failed one.
C12_Witness ==
  /\ cache.stats.total_updates >= 2
  /\ cache.stats.failed_updates >= 1
  /\ cycle_log.pipeline = "pending"
  /\ pc = "get_bus_data"

\* C13: between the end of a cycle and the start of the next there is exactly
\* one sleep of line 163, after a success and after a failure alike.  Every
\* cycle start but the first is taken with exactly one sleep since the
\* previous start, and a sleep is only ever taken after a finished cycle that
\* has not slept yet.
C13_OneSleepBetweenCycles ==
  [][/\ (cache'.stats.total_updates # cache.stats.total_updates
           /\ cache.stats.total_updates >= 1) => sleeps = 1
     /\ sleeps' # sleeps /\ sleeps' # 0
          => /\ sleeps = 0 /\ sleeps' = 1
             /\ pc = "sleep"
             /\ cache.stats.successful_updates + cache.stats.failed_updates
                  = cache.stats.total_updates]_vars

\* A cycle has started after a successful cycle and after a failed one.
C13_Witness ==
  /\ cache.stats.total_updates >= 3
  /\ cache.stats.successful_updates >= 1
  /\ cache.stats.failed_updates >= 1
  /\ pc = "get_stops"

Counters == {"total_updates", "successful_updates", "failed_updates"}

\* C17: total_updates, successful_updates and failed_updates never decrease
\* in a step of the loop or of a handler, and a cycle raises each by at most
\* 1: after every step each is at most one more than at the start of the
\* current cycle (before is the cache at the cycle start, total_updates not
\* yet counted).
C17_CountersMonotone ==
  [][\A c \in Counters :
       /\ cache'.stats[c] >= cache.stats[c]
       /\ cache'.stats[c] <= cache.stats[c] + 1
       /\ cache'.stats[c] <= before'.stats[c] + 1]_vars

\* A third cycle is finishing after a failed and a successful one, and a
\* handler has answered in between.
C17_Witness ==
  /\ cache.stats.total_updates >= 3
  /\ cache.stats.successful_updates >= 2
  /\ cache.stats.failed_updates >= 1
  /\ pc = "store_uptime"
  /\ resp.handler = "get_status"

\* A step of a handler: the position of the request, its response or the
\* record of what it read changes, and the update thread stays where it is.
HandlerStep ==
  /\ handler_pc' # handler_pc \/ resp' # resp \/ read_from' # read_from
  /\ pc' = pc

\* C18: the update loop is the only writer of the cache.  A step of
\* get_stops_api, get_buses_api or get_status leaves cache['stops'],
\* cache['buses'], cache['last_update'] and cache['stats'] as they are,
\* whatever cycles run in between.
C18_HandlersLeaveCache ==
  [][HandlerStep => /\ cache'.stops = cache.stops
                    /\ cache'.buses = cache.buses
                    /\ cache'.last_update = cache.last_update
                    /\ cache'.stats = cache.stats]_vars

\* get_status has answered with the counters of a second cycle in progress,
\* after an answer of the first one was published.
C18_Witness ==
  /\ handler_pc = "idle"
  /\ resp.handler = "get_status"
  /\ resp.stats.total_updates >= 2
  /\ resp.stats.uptime > 0
  /\ InProgress

\* The cycles counted in total_updates and in neither of the other counters.
Uncounted ==
  cache.stats.total_updates
    - (cache.stats.successful_updates + cache.stats.failed_updates)

\* The loop is between line 142 and the increment of line 152 or line 160.
AwaitingOutcome ==
  pc \in {"get_stops", "get_bus_data", "store_stops", "store_buses",
          "store_last_update", "count_success", "except"}

\* C19: in every state, the ones a concurrent get_status observes in the
\* middle of a cycle included, total_updates - (successful_updates +
\* failed_updates) is 0 or 1, and it is 1 exactly while the cycle has counted
\* total_updates and not yet its success or failure.
C19_AtMostOneUncounted ==
  /\ Uncounted \in {0, 1}
  /\ Uncounted = 1 <=> AwaitingOutcome

\* get_status has answered in the middle of a second cycle with counters that
\* differ by 1, and the cycle is still before its increment.
C19_Witness ==
  /\ "stats" \in DOMAIN resp
  /\ resp.stats.total_updates = 2
  /\ resp.stats.successful_updates + resp.stats.failed_updates = 1
  /\ Uncounted = 1
  /\ pc = "store_buses"

\* C20: cache['last_update'] and stats['uptime'] are written only by a cycle
\* that also counts a success.  Between cycles the completed publishes (lines
\* 149-151 all executed) are as many as successful_updates; a cycle that
\* counted a failure has left both fields as they were at its start; a cycle
\* that changed either has counted a success; and while no cycle has
\* succeeded and none is in progress, both still have the initial value 0.
C20_StampOnlyOnSuccess ==
  /\ BetweenCycles => publishes = cache.stats.successful_updates
  /\ (BetweenCycles
        /\ cache.stats.failed_updates = before.stats.failed_updates + 1)
       => /\ cache.last_update = before.last_update
          /\ cache.stats.uptime = before.stats.uptime
  /\ (BetweenCycles
        /\ (cache.last_update # before.last_update
              \/ cache.stats.uptime # before.stats.uptime))
       => cache.stats.successful_updates = before.stats.successful_updates + 1
  /\ (cache.stats.successful_updates = 0 /\ ~InProgress)
       => cache.last_update = 0 /\ cache.stats.uptime = 0

\* A cycle has failed after a successful one and the loop sleeps: the time
\* stamp is the one of the successful cycle.
C20_Witness ==
  /\ pc = "sleep"
  /\ cache.stats.successful_updates = 1
  /\ cache.stats.failed_updates = before.stats.failed_updates + 1
  /\ publishes = 1
  /\ cache.last_update # 0
  /\ cache.last_update < now

-----------------------------------------------------------------------------
(* get_bus_data on its own: one call on every list of stops and every *)
(* behaviour of the provider within the bounds *)

JoinInit ==
  /\ oasa = "OasaTelematics"
  /\ main_pc = "serving"
  /\ cache = [cache0 EXCEPT !.stats.total_updates = 1]
  /\ pc = "get_bus_data"
  /\ stops \in StopLists(MaxStops)
  /\ \E a \in ArrivalAnswers(MaxArrivals), r \in RouteListings(MaxRoutes),
        l \in LocationAnswers :
       \E f \in FaultSets(CallSites(stops, a, r), MaxFaults) :
         env = Env(a, r, l, f)
  /\ buses = <<>>
  /\ errors = 0
  /\ now = server_start_time
  /\ handler_pc = "idle"
  /\ resp = NoResp
  /\ written = [stops |-> 0, buses |-> 0, last_update |-> 0]
  /\ read_from = <<>>
  /\ before = cache0
  /\ cycle_log = [discovery |-> "list", pipeline |-> "pending"]
  /\ sleeps = 0
  /\ publishes = 0

JoinNext == GetBusDataStep(env)

JoinSpec == JoinInit /\ [][JoinNext]_vars

-----------------------------------------------------------------------------
(* Properties of get_bus_data (JoinSpec) *)

JoinDone == pc # "get_bus_data"

\* The sightings of a list that come from arrival a of stop s, and the rest.
OfArrival(list, s, a) ==
  LET Test(b) == /\ b.stop_id = stops[s].StopID
                 /\ b.time_left = env.arrivals.val[a].btime2
  IN  SelectSeq(list, Test)

NotOfArrival(list, s, a) ==
  LET Test(b) == ~ /\ b.stop_id = stops[s].StopID
                   /\ b.time_left = env.arrivals.val[a].btime2
  IN  SelectSeq(list, Test)

\* What get_bus_data does when call x does not raise and all else is equal.
Without(x) == get_bus_data(oasa, stops, [env EXCEPT !.raises = @ \ {x}], now)

\* The first entry of the route listing with the route code of arrival a.
FirstMatch(a) ==
  LET M == {r \in 1..Len(env.routes) :
              env.routes[r].RouteCode = env.arrivals.val[a].route_code}
  IN  CHOOSE r \in M : \A q \in M : r <= q

C8_OneSightingPerArrival ==
  pc = "store_stops" /\ env.arrivals.kind = "list" =>
    \A s \in 1..Len(stops), a \in 1..Len(env.arrivals.val) :
      LET found == OfArrival(buses, s, a)
      IN  /\ Len(found) <= 1
          /\ Len(found) = 1 =>
               found[1].RouteDescr = env.routes[FirstMatch(a)].RouteDescr

\* C14: when the bus_location call of a matched arrival raises (the
\* arrivals call of the stop and the webRoutesForStop call of the arrival
\* having answered), get_bus_data returns, so that the cycle goes on to the
\* stores of lines 149-152, it returns no sighting of that arrival, and its
\* error count is one more than when the call does not raise.
C14_LocationFailureDropsArrival ==
  JoinDone =>
    \A x \in env.raises :
      (x[3] > 0 /\ <<x[1], 0, 0>> \notin env.raises
                /\ <<x[1], x[2], 0>> \notin env.raises) =>
        /\ (pc = "except") = Without(x).raised
        /\ pc = "store_stops" =>
             /\ OfArrival(buses, x[1], x[2]) = <<>>
             /\ errors = Without(x).errors + 1

\* C15: without a raising call, an arrival whose route code is in the route
\* listing and whose bus_location answer is a non-empty list yields exactly
\* one sighting, with the arrival's route_code and btime2, the stop's id and
\* description and the first position's latitude, longitude and vehicle id;
\* any other arrival yields none.
C15_ExactlyOneSightingPerMatch ==
  pc = "store_stops" /\ env.arrivals.kind = "list" /\ env.raises = {} =>
    \A s \in 1..Len(stops), a \in 1..Len(env.arrivals.val) :
      LET arrival == env.arrivals.val[a]
          found == OfArrival(buses, s, a)
          matched == \E r \in 1..Len(env.routes) :
                       env.routes[r].RouteCode = arrival.route_code
          located == env.location.kind = "list" /\ env.location.val # <<>>
      IN  IF matched /\ located
          THEN /\ Len(found) = 1
               /\ found[1].route_code = arrival.route_code
               /\ found[1].time_left = arrival.btime2
               /\ found[1].stop_id = stops[s].StopID
               /\ found[1].stop_name = stops[s].StopDescr
               /\ found[1].lat = Float(env.location.val[1].CS_LAT)
               /\ found[1].lng = Float(env.location.val[1].CS_LNG)
               /\ found[1].vehicle_id = env.location.val[1].VEH_NO
          ELSE found = <<>>

\* The positions in the stops and in the arrivals of the stop and the arrival
\* a sighting was made from.
StopIndex(b) == CHOOSE s \in 1..Len(stops) : stops[s].StopID = b.stop_id

ArrivalIndex(b) ==
  CHOOSE a \in 1..Len(env.arrivals.val) :
    env.arrivals.val[a].btime2 = b.time_left

\* C16: the list get_bus_data returns is in stop order and, within a stop, in
\* arrival order: of two sightings, the one of the earlier stop, or of the
\* earlier arrival of the same stop, comes first.
C16_OutputInIterationOrder ==
  pc = "store_stops" =>
    \A i, j \in 1..Len(buses) :
      \/ StopIndex(buses[i]) < StopIndex(buses[j])
      \/ /\ StopIndex(buses[i]) = StopIndex(buses[j])
         /\ ArrivalIndex(buses[i]) < ArrivalIndex(buses[j])
      => i < j

\* Sightings of two stops and of two arrivals of each have been returned.
C16_Witness ==
  /\ pc = "store_stops"
  /\ Len(stops) >= 2
  /\ \A s \in 1..2, a \in 1..2 :
       \E i \in 1..Len(buses) :
         StopIndex(buses[i]) = s /\ ArrivalIndex(buses[i]) = a

====
